---- MODULE Spec2Model ----
(***************************************************************************)
(* Model of src/pareser.py: the sequential structure parser (parser,       *)
(* find_next_task, find_next_chapter, get_chapter_data, get_task_data)     *)
(* and the answer reconciler (answer_parser, get_answer_text,              *)
(* get_answer_part).                                                       *)
(*                                                                         *)
(* Strings the code slices or concatenates (numbering groups, task ids,    *)
(* answer texts) are sequences of one-character strings.  Python indexes   *)
(* are kept 0-based: At(s, i) is s[i].  The regular expressions live in    *)
(* constants.py, which is not part of src/; a paragraph therefore carries  *)
(* the result of each pattern on it (its classification) next to its text. *)
(***************************************************************************)
EXTENDS Integers, Sequences, FiniteSets, TLC

VARIABLES
    data,               \* parser: list of stripped paragraph texts
    index,              \* parser: top-level cursor (0-based)
    current_chapter,    \* parser: number of the last supreme chapter
    supreme_chapter_id, \* parser: id of the last supreme chapter record
    current_id,         \* parser: next chapter id
    chapters_data,      \* parser: emitted chapter records
    tasks_data,         \* parser / answer_parser: emitted task records
    answers_text,       \* parser: collected answer paragraphs
    pc,                 \* position of the run
    err,                \* the exception a run ended with
    exported,           \* __main__: the spreadsheet was written
    authors_data,       \* parser: the static author record
    a_index,            \* answer_parser: cursor (0-based)
    current_task_num,   \* answer_parser: current whole number
    call                \* a single get_task_data call: arguments and result

vars == <<data, index, current_chapter, supreme_chapter_id, current_id,
          chapters_data, tasks_data, answers_text, pc, err, exported,
          authors_data, a_index, current_task_num, call>>

-----------------------------------------------------------------------------
(* Bounds *)

MaxLen == 4
MaxTasks == 3
MaxRun == 3

-----------------------------------------------------------------------------
(* Python values *)

\* None, as a string value: no sequence of characters equals it
None == <<"None">>

\* s[i] for a 0-based index
At(s, i) == s[i + 1]

\* s[:-1]
DropLast(s) == IF Len(s) = 0 THEN s ELSE SubSeq(s, 1, Len(s) - 1)

\* s.endswith('.')
EndsWithDot(s) == Len(s) > 0 /\ s[Len(s)] = "."

Digits == {"0", "1", "2", "3", "4", "5", "6", "7", "8", "9"}

DigitVal(c) ==
    CASE c = "0" -> 0 [] c = "1" -> 1 [] c = "2" -> 2 [] c = "3" -> 3
      [] c = "4" -> 4 [] c = "5" -> 5 [] c = "6" -> 6 [] c = "7" -> 7
      [] c = "8" -> 8 [] c = "9" -> 9

\* int(s) for a string of digits
RECURSIVE ParseInt(_)
ParseInt(s) ==
    IF Len(s) = 0 THEN 0
    ELSE 10 * ParseInt(DropLast(s)) + DigitVal(s[Len(s)])

NoErr == [type |-> "none", index |-> 0, text |-> ""]

\* lines 245-264: the one author record (name and description shortened)
Authors ==
    <<[name |-> "Tekstovye zadachi po matematike. 5-6 klassy",
       description |-> "Sbornik", topic_id |-> 1, classes |-> "5;6"]>>

-----------------------------------------------------------------------------
(* Paragraphs and the patterns of constants.py *)

Chars(t) ==
    CASE t = "1." -> <<"1", ".">>
      [] t = "2." -> <<"2", ".">>
      [] t = "a)" -> <<"a", ")">>
      [] t = "b)" -> <<"b", ")">>
      [] t = "42" -> <<"4", "2">>
      [] t = "7" -> <<"7">>
      [] t = "a)5;b)7" -> <<"a", ")", "5", ";", "b", ")", "7">>
      [] t = "a)3" -> <<"a", ")", "3">>

NoGroups == [matched |-> FALSE, g1 |-> None, g2 |-> None, g4 |-> None]

\* RE_TASK matched through its explicit alternative: groups 1, 2 (and text 3)
Explicit(g1, g2) ==
    [matched |-> TRUE, g1 |-> Chars(g1), g2 |-> Chars(g2), g4 |-> None]

\* RE_TASK matched through its implicit alternative: group 4 (and text 5)
Implicit(g4) ==
    [matched |-> TRUE, g1 |-> None, g2 |-> None, g4 |-> Chars(g4)]

NoAnswer == [num |-> 0, body |-> <<>>]

Answer(n, body) == [num |-> n, body |-> Chars(body)]

\* the literal of line 352 ("Ответы и советы"), and that of line 356
\* ("оглавление") as the document prints it
AnswersMarker == "Otvety i sovety"
ContentsTitle == "Oglavlenie"

\* A paragraph: its text, the first group of RE_SUPREME_CHAPTER on it (None:
\* no match), whether RE_CHAPTER matches, the groups of RE_TASK on it, and
\* the answer line the answer patterns find in it (num 0: none)
Para(text, sup, chap, task, ans) ==
    [text |-> text, sup |-> sup, chap |-> chap, task |-> task, ans |-> ans]

Paragraphs ==
    { Para("1. Punkt", Chars("1."), FALSE, NoGroups, Answer(1, "42")),
      Para("2. Punkt", Chars("2."), FALSE, NoGroups, Answer(2, "7")),
      Para("1.1. Nazvanie", None, TRUE, NoGroups, NoAnswer),
      Para("1.2. Nazvanie", Chars("1."), TRUE, NoGroups, NoAnswer),
      Para("1. a) Uslovie", Chars("1."), FALSE, Explicit("1.", "a)"),
           Answer(1, "a)5;b)7")),
      Para("2. a) Uslovie", Chars("2."), FALSE, Explicit("2.", "a)"),
           Answer(2, "a)3")),
      Para("b) Uslovie", None, FALSE, Implicit("b)"), NoAnswer),
      Para("2.b) Uslovie", None, FALSE, Explicit("2.", "b)"), NoAnswer),
      Para("1. b) Uslovie", Chars("1."), FALSE, Implicit("b)"), NoAnswer),
      Para(AnswersMarker, None, FALSE, NoGroups, NoAnswer),
      Para(ContentsTitle, None, FALSE, NoGroups, NoAnswer),
      Para("Tekst", None, FALSE, NoGroups, NoAnswer) }

\* re.search(RE_SUPREME_CHAPTER, text)
RE_SUPREME_CHAPTER(text) ==
    [matched |-> text.sup # None, re |-> "supreme", text |-> text.text,
     g1 |-> text.sup, g2 |-> None, g4 |-> None]

\* re.search(RE_CHAPTER, text)
RE_CHAPTER(text) ==
    [matched |-> text.chap, re |-> "chapter", text |-> text.text,
     g1 |-> None, g2 |-> None, g4 |-> None]

\* re.search(RE_TASK, text)
RE_TASK(text) ==
    [matched |-> text.task.matched, re |-> "task", text |-> text.text,
     g1 |-> text.task.g1, g2 |-> text.task.g2, g4 |-> text.task.g4]

\* truth value of a group: None and '' are false
Truthy(g) == g # None /\ g # <<>>

\* text.lower().strip() of an already stripped text
LowerStrip(t) == IF t = ContentsTitle THEN "oglavlenie" ELSE t

-----------------------------------------------------------------------------
(* Records *)

Unset == <<"unset">>     \* a task dict without the key 'answer'
ABSENT == <<"ABSENT">>

\* get_chapter_data with the record's own id stored as the parent
get_chapter_data_own_id(id, match, parent) ==
    IF parent = 0
    THEN [id |-> id, name |-> <<match.text, 1, 2>>, parent |-> parent]
    ELSE [id |-> id, name |-> <<match.text, 1, 2, 3>>, parent |-> id]

get_chapter_data(id, match, parent) ==
    IF parent = 0
    THEN [id |-> id, name |-> <<match.text, 1, 2>>, parent |-> parent]
    ELSE [id |-> id, name |-> <<match.text, 1, 2, 3>>, parent |-> parent]

\* get_task_data raises AttributeError: previous.endswith on None
get_task_data_raises(match, previous, exclusive) ==
    ~exclusive /\ match.g1 = None /\ previous = None

\* get_task_data with the chapter id one too high (the next id to assign)
get_task_data_next_chapter(match, paragraph, previous, exclusive) ==
    LET rec(id, grp) ==
            [id_tasks_book |-> id, task |-> <<match.text, grp>>,
             answer |-> Unset, classes |-> "5;6",
             paragraph |-> paragraph + 1, topic_id |-> 1, level |-> 1]
    IN  IF exclusive THEN rec(DropLast(match.g1), 2)
        ELSE IF match.g1 = None
        THEN LET prev == IF EndsWithDot(previous) THEN previous
                         ELSE previous \o <<".">>
             IN  rec(DropLast(prev \o match.g4), 5)
        ELSE rec(DropLast(match.g1 \o match.g2), 3)

\* get_task_data without [:-1] in the implicit-prefix case
get_task_data_unstripped(match, paragraph, previous, exclusive) ==
    LET rec(id, grp) ==
            [id_tasks_book |-> id, task |-> <<match.text, grp>>,
             answer |-> Unset, classes |-> "5;6",
             paragraph |-> paragraph, topic_id |-> 1, level |-> 1]
    IN  IF exclusive THEN rec(DropLast(match.g1), 2)
        ELSE IF match.g1 = None
        THEN LET prev == IF EndsWithDot(previous) THEN previous
                         ELSE previous \o <<".">>
             IN  rec(prev \o match.g4, 5)
        ELSE rec(DropLast(match.g1 \o match.g2), 3)

get_task_data(match, paragraph, previous, exclusive) ==
    LET base == [classes |-> "5;6", paragraph |-> paragraph, topic_id |-> 1,
                 level |-> 1, answer |-> Unset]
        rec(id, grp) ==
            [id_tasks_book |-> id, task |-> <<match.text, grp>>,
             answer |-> base.answer, classes |-> base.classes,
             paragraph |-> base.paragraph, topic_id |-> base.topic_id,
             level |-> base.level]
    IN  IF exclusive THEN rec(DropLast(match.g1), 2)
        ELSE IF match.g1 = None
        THEN LET prev == IF EndsWithDot(previous) THEN previous
                         ELSE previous \o <<".">>
             IN  rec(DropLast(prev \o match.g4), 5)
        ELSE rec(DropLast(match.g1 \o match.g2), 3)

\* find_next_task: the tasks list after the call, the index returned, and
\* the exception raised ("none": it returned)
RECURSIVE find_next_task(_, _, _, _, _)
find_next_task(d, tasks, next_index, previous_id, paragraph) ==
    IF next_index >= Len(d)
    THEN [tasks |-> tasks, index |-> next_index, raised |-> "IndexError"]
    ELSE LET text == At(d, next_index)
             task_match == RE_TASK(text)
         IN  IF task_match.matched
             THEN IF RE_SUPREME_CHAPTER(text).matched
                  THEN [tasks |-> tasks, index |-> next_index,
                        raised |-> "none"]
                  ELSE IF get_task_data_raises(task_match, previous_id, FALSE)
                  THEN [tasks |-> tasks, index |-> next_index,
                        raised |-> "AttributeError"]
                  ELSE find_next_task(
                           d,
                           Append(tasks, get_task_data(task_match, paragraph,
                                                       previous_id, FALSE)),
                           next_index + 1, previous_id, paragraph)
             ELSE [tasks |-> tasks, index |-> next_index, raised |-> "none"]

\* find_next_chapter: whether data[next_index] can be read, and the match
find_next_chapter(d, next_index) ==
    IF next_index >= Len(d)
    THEN [raised |-> "IndexError", index |-> next_index,
          match |-> RE_CHAPTER(Para("", None, FALSE, NoGroups, NoAnswer))]
    ELSE [raised |-> "none", index |-> next_index,
          match |-> RE_CHAPTER(At(d, next_index))]

-----------------------------------------------------------------------------
(* Answer reconciler *)

\* character classes of the patterns: \d, \w and [^;]
InClass(c, class) ==
    CASE class = "digit" -> c \in Digits
      [] class = "word" -> c \notin {".", ")", ";", " "}
      [] class = "notsemi" -> c # ";"

\* length of the longest run of characters of a class that starts at s[from]
RECURSIVE RunLen(_, _, _)
RunLen(s, from, class) ==
    IF from <= Len(s) /\ InClass(s[from], class)
    THEN 1 + RunLen(s, from + 1, class)
    ELSE 0

\* re.search(RE_TASK_ID, id): a whole number (group 0), and, when a
\* sub-part follows its dot, the whole number (group 1) and the sub-part
\* (group 2)
RE_TASK_ID(id) ==
    LET n == RunLen(id, 1, "digit")
        w == IF n + 1 <= Len(id) /\ id[n + 1] = "."
             THEN RunLen(id, n + 2, "word") ELSE 0
    IN  IF n = 0
        THEN [matched |-> FALSE, g0 |-> None, g1 |-> None, g2 |-> None]
        ELSE IF w > 0
        THEN [matched |-> TRUE, g0 |-> SubSeq(id, 1, n + 1 + w),
              g1 |-> SubSeq(id, 1, n), g2 |-> SubSeq(id, n + 2, n + 1 + w)]
        ELSE [matched |-> TRUE, g0 |-> SubSeq(id, 1, n), g1 |-> None,
              g2 |-> None]

\* get_answer_text: the text of the first answer line anchored at task_id
get_answer_text(task_id, text) ==
    LET hits == {i \in 1..Len(text) : text[i].ans.num = task_id}
    IN  IF hits = {} THEN ABSENT
        ELSE text[CHOOSE i \in hits : \A j \in hits : i <= j].ans.body

\* get_answer_part: what follows "<task_part_id>)" up to the next ';'
get_answer_part(task_part_id, text) ==
    LET n == Len(task_part_id)
        hits == {i \in 1..Len(text) :
                    /\ i + n <= Len(text)
                    /\ SubSeq(text, i, i + n - 1) = task_part_id
                    /\ text[i + n] = ")"}
    IN  IF hits = {} THEN ABSENT
        ELSE LET i == CHOOSE i \in hits : \A j \in hits : i <= j
                 from == i + n + 1
             IN  SubSeq(text, from, from + RunLen(text, from, "notsemi") - 1)

\* the assignment written as '+=': the value is appended to an answer
\* already there
SetAnswer_append(tasks, i, v) ==
    [tasks EXCEPT ![i + 1].answer =
        IF @ = Unset THEN v ELSE @ \o v]

\* the value stored under the key 'task'
SetAnswer_wrong_key(tasks, i, v) == [tasks EXCEPT ![i + 1].task = v]

\* tasks_data[i]['answer'] = v
SetAnswer(tasks, i, v) == [tasks EXCEPT ![i + 1].answer = v]

\* the whole answer line stored for a task with a sub-part
PartOrAbsent_whole(answer, part) == answer

\* the answer of a task with a sub-part, lines 185-191 and 209-216
PartOrAbsent(answer, part) ==
    IF answer # ABSENT THEN get_answer_part(part, answer) ELSE answer

\* a sub-part task of a lower number skipped with 'continue'
SubPartStep_continue(answers, st, m) ==
    IF ParseInt(m.g1) >= st.num
    THEN LET num == ParseInt(m.g1)
             answer == get_answer_text(num, answers)
         IN  [tasks |-> SetAnswer(st.tasks, st.index,
                                  PartOrAbsent(answer, m.g2)),
              index |-> st.index + 1, num |-> num, raised |-> "none"]
    ELSE st

\* lines 182-191: the task at the cursor has a sub-part
SubPartStep(answers, st, m) ==
    IF ParseInt(m.g1) >= st.num
    THEN LET num == ParseInt(m.g1)
             answer == get_answer_text(num, answers)
         IN  [tasks |-> SetAnswer(st.tasks, st.index,
                                  PartOrAbsent(answer, m.g2)),
              index |-> st.index + 1, num |-> num, raised |-> "none"]
    ELSE [st EXCEPT !.index = st.index + 1]

\* line 225 read as 'index += 1': the next task of the same number is
\* stepped over
WholeStep_equal_skips_next(answers, st, m) ==
    LET num == ParseInt(m.g0)
    IN  IF st.index + 1 >= Len(st.tasks)
        THEN [st EXCEPT !.num = num, !.raised = "IndexError"]
        ELSE
        LET next == RE_TASK_ID(At(st.tasks, st.index + 1).id_tasks_book)
        IN  IF ~next.matched
            THEN [st EXCEPT !.num = num, !.raised = "AttributeError"]
            ELSE IF next.g1 = None
            THEN LET t1 == SetAnswer(st.tasks, st.index,
                                     get_answer_text(num, answers))
                     num2 == ParseInt(next.g0)
                 IN  [tasks |-> SetAnswer(t1, st.index + 1,
                                          get_answer_text(num2, answers)),
                      index |-> st.index + 2, num |-> num2,
                      raised |-> "none"]
            ELSE IF ParseInt(next.g1) > num
            THEN LET t1 == SetAnswer(st.tasks, st.index,
                                     get_answer_text(num, answers))
                     num2 == ParseInt(next.g1)
                     next_answer == get_answer_text(num2, answers)
                 IN  [tasks |-> SetAnswer(t1, st.index + 1,
                                          PartOrAbsent(next_answer, next.g2)),
                      index |-> st.index + 2, num |-> num2,
                      raised |-> "none"]
            ELSE IF ParseInt(next.g1) = num
            THEN LET t1 == SetAnswer(st.tasks, st.index, ABSENT)
                     next_answer == get_answer_text(num, answers)
                 IN  [tasks |-> IF next_answer # ABSENT
                                THEN SetAnswer(t1, st.index + 1,
                                         get_answer_part(next.g2, next_answer))
                                ELSE t1,
                      index |-> st.index + 2, num |-> num, raised |-> "none"]
            ELSE [st EXCEPT !.num = num, !.index = st.index + 1]

\* lines 193-225: the task at the cursor has no sub-part
WholeStep(answers, st, m) ==
    LET num == ParseInt(m.g0)
    IN  IF st.index + 1 >= Len(st.tasks)
        THEN [st EXCEPT !.num = num, !.raised = "IndexError"]
        ELSE
        LET next == RE_TASK_ID(At(st.tasks, st.index + 1).id_tasks_book)
        IN  IF ~next.matched
            THEN [st EXCEPT !.num = num, !.raised = "AttributeError"]
            ELSE IF next.g1 = None
            THEN LET t1 == SetAnswer(st.tasks, st.index,
                                     get_answer_text(num, answers))
                     num2 == ParseInt(next.g0)
                 IN  [tasks |-> SetAnswer(t1, st.index + 1,
                                          get_answer_text(num2, answers)),
                      index |-> st.index + 2, num |-> num2,
                      raised |-> "none"]
            ELSE IF ParseInt(next.g1) > num
            THEN LET t1 == SetAnswer(st.tasks, st.index,
                                     get_answer_text(num, answers))
                     num2 == ParseInt(next.g1)
                     next_answer == get_answer_text(num2, answers)
                 IN  [tasks |-> SetAnswer(t1, st.index + 1,
                                          PartOrAbsent(next_answer, next.g2)),
                      index |-> st.index + 2, num |-> num2,
                      raised |-> "none"]
            ELSE IF ParseInt(next.g1) = num
            THEN LET t1 == SetAnswer(st.tasks, st.index, ABSENT)
                     next_answer == get_answer_text(num, answers)
                 IN  [tasks |-> IF next_answer # ABSENT
                                THEN SetAnswer(t1, st.index + 1,
                                         get_answer_part(next.g2, next_answer))
                                ELSE t1,
                      index |-> st.index + 1, num |-> num, raised |-> "none"]
            ELSE [st EXCEPT !.num = num, !.index = st.index + 1]

\* one iteration of the loop of answer_parser (lines 180-226) from the state
\* st = (tasks_data, index, current_task_num)
AnswerStep(answers, st) ==
    LET m == RE_TASK_ID(At(st.tasks, st.index).id_tasks_book)
    IN  IF ~m.matched THEN [st EXCEPT !.raised = "AttributeError"]
        ELSE IF Truthy(m.g1) THEN SubPartStep(answers, st, m)
        ELSE WholeStep(answers, st, m)

RECURSIVE AnswerLoop(_, _)
AnswerLoop(answers, st) ==
    IF st.raised # "none" \/ st.index >= Len(st.tasks) THEN st
    ELSE AnswerLoop(answers, AnswerStep(answers, st))

\* answer_parser(data, tasks_data): the final loop state; its tasks are the
\* list returned (or the list as mutated up to the exception)
answer_parser(answers, tasks) ==
    AnswerLoop(answers,
               [tasks |-> tasks, index |-> 0, num |-> 0, raised |-> "none"])

-----------------------------------------------------------------------------
(* parser: one iteration of the loop of line 273 per action.  A branch maps *)
(* the locals s of parser to their values after the iteration.              *)

Locals ==
    [index |-> index, current_chapter |-> current_chapter,
     supreme_chapter_id |-> supreme_chapter_id, current_id |-> current_id,
     chapters_data |-> chapters_data, tasks_data |-> tasks_data,
     answers_text |-> answers_text, pc |-> pc, err |-> err]

Raise(s, type, i, text) ==
    [s EXCEPT !.pc = IF type = "ValueError" THEN "fatal" ELSE "crash",
              !.err = [type |-> type, index |-> i, text |-> text]]

\* chapters_data[-1]['id'], tasks_data[-1]['id_tasks_book']
Last(seq) == seq[Len(seq)]

\* any greater chapter number taken for the next chapter
its_next_chapter_greater(s, supreme_chapter_match) ==
    ParseInt(DropLast(supreme_chapter_match.g1)) > s.current_chapter

\* lines 277-278
its_next_chapter(s, supreme_chapter_match) ==
    ParseInt(DropLast(supreme_chapter_match.g1)) = s.current_chapter + 1

\* lines 281-306: the next supreme chapter, with or without the sub-chapter
\* found by looking one paragraph ahead
SupremeBranch(d, s) ==
    LET text == At(d, s.index)
        supreme_chapter_match == RE_SUPREME_CHAPTER(text)
        found == find_next_chapter(d, s.index + 1)
        supreme == get_chapter_data(s.current_id, supreme_chapter_match, 0)
        number == ParseInt(DropLast(supreme_chapter_match.g1))
    IN  IF found.raised # "none"
        THEN Raise(s, found.raised, s.index, text.text)
        ELSE IF found.match.matched
        THEN [s EXCEPT
                !.chapters_data =
                    Append(Append(s.chapters_data, supreme),
                           get_chapter_data(s.current_id + 1, found.match,
                                            s.current_id)),
                !.supreme_chapter_id = s.current_id,
                !.current_id = s.current_id + 2,
                !.current_chapter = number,
                !.index = found.index + 1]
        ELSE [s EXCEPT
                !.chapters_data = Append(s.chapters_data, supreme),
                !.supreme_chapter_id = s.current_id,
                !.current_id = s.current_id + 1,
                !.current_chapter = number,
                !.index = s.index + 1]

\* a sub-chapter record appended without current_id += 1
ChapterBranch_same_id(d, s) ==
    LET chapter_match == RE_CHAPTER(At(d, s.index))
    IN  [s EXCEPT
            !.chapters_data =
                Append(s.chapters_data,
                       get_chapter_data(s.current_id, chapter_match,
                                        s.supreme_chapter_id)),
            !.index = s.index + 1]

\* lines 310-315 and 335-340: a sub-chapter record
ChapterBranch(d, s) ==
    LET chapter_match == RE_CHAPTER(At(d, s.index))
    IN  [s EXCEPT
            !.chapters_data =
                Append(s.chapters_data,
                       get_chapter_data(s.current_id, chapter_match,
                                        s.supreme_chapter_id)),
            !.current_id = s.current_id + 1,
            !.index = s.index + 1]

\* the paragraph find_next_task stopped at is stepped over
AfterGroup_skip(s, text, tasks, next_previous_id, paragraph, d) ==
    LET r == find_next_task(d, tasks, s.index + 1, next_previous_id,
                            paragraph)
    IN  IF r.raised # "none"
        THEN Raise([s EXCEPT !.tasks_data = r.tasks], r.raised, s.index,
                   text.text)
        ELSE [s EXCEPT !.tasks_data = r.tasks, !.index = r.index + 1]

\* the end of a task group: find_next_task's result stored into the locals
AfterGroup(s, text, tasks, next_previous_id, paragraph, d) ==
    LET r == find_next_task(d, tasks, s.index + 1, next_previous_id,
                            paragraph)
    IN  IF r.raised # "none"
        THEN Raise([s EXCEPT !.tasks_data = r.tasks], r.raised, s.index,
                   text.text)
        ELSE [s EXCEPT !.tasks_data = r.tasks, !.index = r.index]

\* lines 317-331: a supreme-matching line that is neither the next chapter
\* nor a sub-chapter: a task group, or an exclusive task
SupremeTaskBranch(d, s) ==
    LET text == At(d, s.index)
        supreme_chapter_match == RE_SUPREME_CHAPTER(text)
        task_match == RE_TASK(text)
    IN  IF s.chapters_data = <<>>
        THEN Raise(s, "IndexError", s.index, text.text)
        ELSE
        LET paragraph == Last(s.chapters_data).id
        IN  IF task_match.matched
            THEN IF Truthy(task_match.g4) /\ s.tasks_data = <<>>
                 THEN Raise(s, "IndexError", s.index, text.text)
                 ELSE
                 LET previous_id ==
                         IF Truthy(task_match.g4)
                         THEN Last(s.tasks_data).id_tasks_book
                         ELSE task_match.g1
                 IN  IF get_task_data_raises(task_match, previous_id, FALSE)
                     THEN Raise(s, "AttributeError", s.index, text.text)
                     ELSE AfterGroup(
                              s, text,
                              Append(s.tasks_data,
                                     get_task_data(task_match, paragraph,
                                                   previous_id, FALSE)),
                              task_match.g1, paragraph, d)
            ELSE [s EXCEPT
                    !.tasks_data =
                        Append(s.tasks_data,
                               get_task_data(supreme_chapter_match, paragraph,
                                             None, TRUE)),
                    !.index = s.index + 1]

\* lines 343-351: a task group that starts on a line matching only RE_TASK
TaskBranch(d, s) ==
    LET text == At(d, s.index)
        task_match == RE_TASK(text)
    IN  IF Truthy(task_match.g4) /\ s.tasks_data = <<>>
        THEN Raise(s, "IndexError", s.index, text.text)
        ELSE
        LET previous_id ==
                IF Truthy(task_match.g4)
                THEN Last(s.tasks_data).id_tasks_book
                ELSE task_match.g1
        IN  IF s.chapters_data = <<>>
            THEN Raise(s, "IndexError", s.index, text.text)
            ELSE
            LET paragraph == Last(s.chapters_data).id
            IN  IF get_task_data_raises(task_match, previous_id, FALSE)
                THEN Raise(s, "AttributeError", s.index, text.text)
                ELSE AfterGroup(
                         s, text,
                         Append(s.tasks_data,
                                get_task_data(task_match, paragraph,
                                              previous_id, FALSE)),
                         previous_id, paragraph, d)

\* lines 354-359: the paragraphs from i up to the table of contents or the
\* end, appended to acc; the index the inner loop stops at
RECURSIVE CollectAnswers(_, _, _)
CollectAnswers(d, i, acc) ==
    IF i < Len(d) /\ LowerStrip(At(d, i).text) # "oglavlenie"
    THEN CollectAnswers(d, i + 1, Append(acc, At(d, i)))
    ELSE [answers |-> acc, index |-> i]

\* answers mode that collects from the marker itself
AnswersBranch_from_marker(d, s) ==
    LET r == CollectAnswers(d, s.index, s.answers_text)
    IN  [s EXCEPT !.answers_text = r.answers, !.index = r.index,
                  !.pc = "exit"]

\* lines 352-360
AnswersBranch(d, s) ==
    LET r == CollectAnswers(d, s.index + 1, s.answers_text)
    IN  [s EXCEPT !.answers_text = r.answers, !.index = r.index,
                  !.pc = "exit"]

\* an unrecognised paragraph skipped instead of raised
FatalBranch_skip(d, s) == [s EXCEPT !.index = s.index + 1]

\* lines 361-362
FatalBranch(d, s) ==
    Raise(s, "ValueError", s.index, At(d, s.index).text)

\* the branch the iteration at the cursor takes (lines 274-362)
Iteration(d, s) ==
    LET text == At(d, s.index)
        supreme_chapter_match == RE_SUPREME_CHAPTER(text)
        task_match == RE_TASK(text)
    IN  IF supreme_chapter_match.matched
        THEN IF its_next_chapter(s, supreme_chapter_match)
                /\ ~task_match.matched
             THEN "supreme"
             ELSE IF RE_CHAPTER(text).matched THEN "chapter"
             ELSE "supreme_task"
        ELSE IF RE_CHAPTER(text).matched THEN "chapter"
        ELSE IF task_match.matched THEN "task"
        ELSE IF text.text = AnswersMarker THEN "answers"
        ELSE "fatal"

Store(s) ==
    /\ index' = s.index
    /\ current_chapter' = s.current_chapter
    /\ supreme_chapter_id' = s.supreme_chapter_id
    /\ current_id' = s.current_id
    /\ chapters_data' = s.chapters_data
    /\ tasks_data' = s.tasks_data
    /\ answers_text' = s.answers_text
    /\ pc' = s.pc
    /\ err' = s.err
    /\ UNCHANGED <<data, exported, authors_data, a_index, current_task_num,
                   call>>

InLoop == pc = "loop" /\ index < Len(data)

Supreme ==
    InLoop /\ Iteration(data, Locals) = "supreme"
    /\ Store(SupremeBranch(data, Locals))

Chapter ==
    InLoop /\ Iteration(data, Locals) = "chapter"
    /\ Store(ChapterBranch(data, Locals))

SupremeTask ==
    InLoop /\ Iteration(data, Locals) = "supreme_task"
    /\ Store(SupremeTaskBranch(data, Locals))

Task ==
    InLoop /\ Iteration(data, Locals) = "task"
    /\ Store(TaskBranch(data, Locals))

Answers ==
    InLoop /\ Iteration(data, Locals) = "answers"
    /\ Store(AnswersBranch(data, Locals))

Fatal ==
    InLoop /\ Iteration(data, Locals) = "fatal"
    /\ Store(FatalBranch(data, Locals))

\* lines 273 and 364-366: the loop is left; answer_parser is entered when
\* answers were collected, else parser returns
LoopExit ==
    /\ pc = "exit" \/ (pc = "loop" /\ index >= Len(data))
    /\ IF answers_text # <<>>
       THEN pc' = "answer_parser" /\ a_index' = 0 /\ current_task_num' = 0
       ELSE pc' = "returned" /\ UNCHANGED <<a_index, current_task_num>>
    /\ UNCHANGED <<data, index, current_chapter, supreme_chapter_id,
                   current_id, chapters_data, tasks_data, answers_text, err,
                   exported, authors_data, call>>

\* lines 179-226: one iteration of answer_parser's loop
AnswerIteration ==
    /\ pc = "answer_parser"
    /\ a_index < Len(tasks_data)
    /\ LET st == AnswerStep(answers_text,
                            [tasks |-> tasks_data, index |-> a_index,
                             num |-> current_task_num, raised |-> "none"])
       IN  /\ tasks_data' = st.tasks
           /\ a_index' = st.index
           /\ current_task_num' = st.num
           /\ IF st.raised # "none"
              THEN /\ pc' = "crash"
                   /\ err' = [type |-> st.raised, index |-> a_index,
                              text |-> ""]
              ELSE UNCHANGED <<pc, err>>
    /\ UNCHANGED <<data, index, current_chapter, supreme_chapter_id,
                   current_id, chapters_data, answers_text, exported,
                   authors_data, call>>

\* lines 227 and 365-366: answer_parser returns, and parser with it
AnswerReturn ==
    /\ pc = "answer_parser"
    /\ a_index >= Len(tasks_data)
    /\ pc' = "returned"
    /\ UNCHANGED <<data, index, current_chapter, supreme_chapter_id,
                   current_id, chapters_data, tasks_data, answers_text, err,
                   exported, authors_data, a_index, current_task_num, call>>

\* lines 374-392: the three sheets are written from what parser returned
Export ==
    /\ pc = "returned"
    /\ ~exported
    /\ exported' = TRUE
    /\ UNCHANGED <<authors_data, data, index, current_chapter,
                   supreme_chapter_id,
                   current_id, chapters_data, tasks_data, answers_text, pc,
                   err, a_index, current_task_num, call>>

NoCall == [made |-> FALSE]

\* all lists of at most n elements of S
SeqsUpTo(S, n) == UNION {[1..k -> S] : k \in 0..n}

\* lines 242-272: the locals of parser on a document of at most MaxLen
\* paragraphs
Init ==
    /\ data \in SeqsUpTo(Paragraphs, MaxLen)
    /\ index = 0
    /\ current_chapter = 0
    /\ supreme_chapter_id = 0
    /\ current_id = 1
    /\ chapters_data = <<>>
    /\ tasks_data = <<>>
    /\ answers_text = <<>>
    /\ pc = "loop"
    /\ err = NoErr
    /\ exported = FALSE
    /\ authors_data = Authors
    /\ a_index = 0
    /\ current_task_num = 0
    /\ call = NoCall

Next ==
    \/ Supreme
    \/ Chapter
    \/ SupremeTask
    \/ Task
    \/ Answers
    \/ Fatal
    \/ LoopExit
    \/ AnswerIteration
    \/ AnswerReturn
    \/ Export

Spec == Init /\ [][Next]_vars

-----------------------------------------------------------------------------
(* answer_parser on its own: every list of at most MaxTasks tasks with ids *)
(* the main pass assembles, against every block of one or two answer lines *)

TaskIds ==
    { <<"1">>, <<"2">>, <<"1", ".", "a">>, <<"1", ".", "b">>,
      <<"2", ".", "a">>, <<"2", ".", "b">>, <<"1", ".", "a", ".", "b">> }

TaskWithId(id) ==
    [id_tasks_book |-> id, task |-> <<"Uslovie", 3>>, answer |-> Unset,
     classes |-> "5;6", paragraph |-> 1, topic_id |-> 1, level |-> 1]

AnswerLines == {p \in Paragraphs : p.ans.num # 0 \/ p.text = "Tekst"}

AnswerBlocks == SeqsUpTo(AnswerLines, 2) \ {<<>>}

InitA ==
    /\ data = <<>>
    /\ index = 0
    /\ current_chapter = 1
    /\ supreme_chapter_id = 1
    /\ current_id = 2
    /\ chapters_data = <<[id |-> 1, name |-> <<"1. Punkt", 1, 2>>,
                          parent |-> 0]>>
    /\ \E ids \in SeqsUpTo(TaskIds, MaxTasks) :
          tasks_data = [k \in 1..Len(ids) |-> TaskWithId(ids[k])]
    /\ answers_text \in AnswerBlocks
    /\ pc = "answer_parser"
    /\ err = NoErr
    /\ exported = FALSE
    /\ authors_data = Authors
    /\ a_index = 0
    /\ current_task_num = 0
    /\ call = NoCall

NextA == AnswerIteration \/ AnswerReturn

SpecA == InitA /\ [][NextA]_vars

-----------------------------------------------------------------------------
(* get_task_data on its own: one call per behaviour *)

PreviousIds ==
    { Chars("1."), Chars("2."), <<"1">>, <<"2">>, <<"1", ".", "a">>,
      <<"2", ".", "b">>, <<>> }

\* the calls of lines 47, 322, 328 and 348: a task match with the previous
\* id (None when the group started on an implicit line), or a supreme match
\* with exclusive=True
TaskCalls ==
    {[made |-> FALSE, match |-> RE_TASK(p), paragraph |-> c, previous |-> prev,
      exclusive |-> FALSE] :
        p \in {q \in Paragraphs : q.task.matched}, c \in 1..2,
        prev \in PreviousIds \cup {None}}
    \cup
    {[made |-> FALSE, match |-> RE_SUPREME_CHAPTER(p), paragraph |-> c,
      previous |-> None, exclusive |-> TRUE] :
        p \in {q \in Paragraphs : q.sup # None}, c \in 1..2}

InitT ==
    /\ call \in TaskCalls
    /\ data = <<>>
    /\ index = 0
    /\ current_chapter = 0
    /\ supreme_chapter_id = 0
    /\ current_id = 1
    /\ chapters_data = <<>>
    /\ tasks_data = <<>>
    /\ answers_text = <<>>
    /\ pc = "get_task_data"
    /\ err = NoErr
    /\ exported = FALSE
    /\ authors_data = Authors
    /\ a_index = 0
    /\ current_task_num = 0

\* get_task_data returns its record
TaskCallReturns ==
    /\ pc = "get_task_data"
    /\ ~get_task_data_raises(call.match, call.previous, call.exclusive)
    /\ tasks_data' = <<get_task_data(call.match, call.paragraph,
                                     call.previous, call.exclusive)>>
    /\ call' = [call EXCEPT !.made = TRUE]
    /\ pc' = "returned"
    /\ UNCHANGED <<data, index, current_chapter, supreme_chapter_id,
                   current_id, chapters_data, answers_text, err, exported,
                   authors_data,
                   a_index, current_task_num>>

\* get_task_data raises: previous.endswith on None
TaskCallRaises ==
    /\ pc = "get_task_data"
    /\ get_task_data_raises(call.match, call.previous, call.exclusive)
    /\ pc' = "crash"
    /\ err' = [type |-> "AttributeError", index |-> 0,
               text |-> call.match.text]
    /\ UNCHANGED <<data, index, current_chapter, supreme_chapter_id,
                   current_id, chapters_data, tasks_data, answers_text,
                   exported, authors_data, a_index, current_task_num, call>>

NextT == TaskCallReturns \/ TaskCallRaises

SpecT == InitT /\ [][NextT]_vars

-----------------------------------------------------------------------------
(* parser on one chapter of tasks: a sub-chapter heading, a group of at    *)
(* most MaxRun task lines, then the answers marker                         *)

TaskLines ==
    {p \in Paragraphs : p.task.matched \/ p.text = "2. Punkt"}

InitG ==
    /\ \E run \in SeqsUpTo(TaskLines, MaxRun) :
          \E heading \in {p \in Paragraphs : p.text = "1.1. Nazvanie"} :
             \E marker \in {p \in Paragraphs : p.text = AnswersMarker} :
                data = <<heading>> \o run \o <<marker>>
    /\ index = 0
    /\ current_chapter = 0
    /\ supreme_chapter_id = 0
    /\ current_id = 1
    /\ chapters_data = <<>>
    /\ tasks_data = <<>>
    /\ answers_text = <<>>
    /\ pc = "loop"
    /\ err = NoErr
    /\ exported = FALSE
    /\ authors_data = Authors
    /\ a_index = 0
    /\ current_task_num = 0
    /\ call = NoCall

NextG == Chapter \/ SupremeTask \/ Task \/ Answers \/ LoopExit

SpecG == InitG /\ [][NextG]_vars

-----------------------------------------------------------------------------
(* Properties *)

\* C1: a call to parser ends in one of two ways only: it returns its three
\* lists or it raises the fatal classification error; no look-ahead read
\* (data[index+1], tasks_data[index+1]) and no read of the last chapter, the
\* last task or previous_id fails.
C1_ReturnsOrFatalOnly == pc # "crash"

\* C2: in every state of parser, each chapter record's parent is 0 or the id
\* of a record that stands earlier in chapters_data.
C2_ParentIsEarlierChapter ==
    \A k \in 1..Len(chapters_data) :
        \/ chapters_data[k].parent = 0
        \/ \E j \in 1..(k - 1) :
              chapters_data[j].id = chapters_data[k].parent

\* a sub-chapter record under a supreme chapter that is not the first record
C2_Witness ==
    \E k \in 1..Len(chapters_data) : chapters_data[k].parent > 1

\* C3: every task record appended by a step carries the id of a chapter
\* record that was in chapters_data before the step, so no task is emitted
\* while chapters_data is empty; and every task in tasks_data refers to a
\* record of chapters_data.
C3_TaskChapterEmittedBefore ==
    /\ [](\A k \in 1..Len(tasks_data) :
             \E c \in 1..Len(chapters_data) :
                chapters_data[c].id = tasks_data[k].paragraph)
    /\ [][(\A k \in (Len(tasks_data) + 1)..Len(tasks_data') :
              \E c \in 1..Len(chapters_data) :
                 chapters_data[c].id = tasks_data'[k].paragraph)]_vars

\* two tasks under a chapter that is not the first record
C3_Witness ==
    /\ Len(tasks_data) >= 2
    /\ \A k \in 1..Len(tasks_data) : tasks_data[k].paragraph = 2

\* the paragraph at the cursor matches no pattern and is not the marker
Unrecognised(p) ==
    p.sup = None /\ ~p.chap /\ ~p.task.matched /\ p.text # AnswersMarker

\* C4: when the paragraph at the top-level cursor matches no pattern and is
\* not the answers marker, parser raises the fatal error with that
\* paragraph's index and text; after it parser never returns and nothing is
\* exported.
C4_UnrecognisedIsFatal ==
    /\ [][(InLoop /\ Unrecognised(At(data, index)))
            => /\ pc' = "fatal"
               /\ err' = [type |-> "ValueError", index |-> index,
                          text |-> At(data, index).text]]_vars
    /\ [][(pc = "fatal") => (pc' = "fatal")]_vars
    /\ [](pc = "fatal" => ~exported)

\* the fatal error raised after records were already emitted
C4_Witness ==
    /\ pc = "fatal"
    /\ err.index = 2
    /\ chapters_data # <<>>
    /\ tasks_data # <<>>

\* C5: after answer_parser returns on a non-empty answers block, every task
\* has its 'answer' set (to an answer or to ABSENT).
C5_EveryTaskAnswered ==
    (pc = "returned" /\ answers_text # <<>>)
        => \A k \in 1..Len(tasks_data) : tasks_data[k].answer # Unset

\* 0-based index of the first table-of-contents paragraph at or after from,
\* or the length of the list
ContentsIndex(d, from) ==
    LET hits == {i \in from..(Len(d) - 1) :
                    LowerStrip(At(d, i).text) = "oglavlenie"}
    IN  IF hits = {} THEN Len(d)
        ELSE CHOOSE i \in hits : \A j \in hits : i <= j

\* C6: when the cursor is on the answers marker, the paragraphs after it up
\* to the table of contents (or the end) are appended in order and unchanged
\* to answers_text, the cursor stops on the table of contents (or the end)
\* and the main pass is left; from then on no chapter and no task record is
\* emitted and the cursor does not move.
C6_AnswersMode ==
    /\ [][(InLoop /\ Iteration(data, Locals) = "answers")
            => LET stop == ContentsIndex(data, index + 1)
               IN  /\ answers_text' =
                          answers_text \o SubSeq(data, index + 2, stop)
                   /\ index' = stop
                   /\ pc' = "exit"
                   /\ chapters_data' = chapters_data
                   /\ tasks_data' = tasks_data]_vars
    /\ [][(pc \in {"exit", "answer_parser"})
            => /\ chapters_data' = chapters_data
               /\ Len(tasks_data') = Len(tasks_data)
               /\ answers_text' = answers_text
               /\ index' = index
               /\ data' = data
               /\ ~(pc' = "loop")]_vars

\* answers were collected and the cursor stopped on the table of contents
C6_Witness ==
    /\ pc = "exit"
    /\ Len(answers_text) = 2
    /\ index < Len(data)

\* 'Scenario 1': a supreme heading numbered 1, a sub-chapter heading, a task
Scenario1 ==
    /\ Len(data) = 3
    /\ data[1].text = "1. Punkt"
    /\ data[2].text = "1.1. Nazvanie"
    /\ data[3].task.matched

\* C7: on the stream of 'Scenario 1' parser returns chapter records 1
\* (parent 0) and 2 (parent 1) and one task record with chapter id 2.
C7_Scenario1Result ==
    (Scenario1 /\ pc \notin {"loop", "exit", "answer_parser"})
        => /\ pc = "returned"
           /\ Len(chapters_data) = 2
           /\ chapters_data[1].id = 1 /\ chapters_data[1].parent = 0
           /\ chapters_data[2].id = 2 /\ chapters_data[2].parent = 1
           /\ Len(tasks_data) = 1
           /\ tasks_data[1].paragraph = 2

\* the leading numeric component of a task id
LeadingNumber(id) == SubSeq(id, 1, RunLen(id, 1, "digit"))

\* the task record was built from the implicit alternative (its text is
\* group 5 of RE_TASK)
IsImplicit(task) == task.task[2] = 5

\* C8: every task with an implicit prefix has the leading number of the
\* most recent task before it that carried its own leading number.
C8_ImplicitFollowsLastExplicit ==
    pc # "crash" =>
        \A k \in 1..Len(tasks_data) :
            IsImplicit(tasks_data[k])
                => \A j \in 1..(k - 1) :
                      (/\ ~IsImplicit(tasks_data[j])
                       /\ \A i \in (j + 1)..(k - 1) :
                             IsImplicit(tasks_data[i]))
                        => LeadingNumber(tasks_data[k].id_tasks_book)
                               = LeadingNumber(tasks_data[j].id_tasks_book)

\* C9: answer_parser run again on the same answers and on the tasks it
\* returned returns the same tasks, answers included.
C9_AnswerParserIdempotent ==
    pc = "returned"
        => LET again == answer_parser(answers_text, tasks_data)
           IN  again.raised = "none" /\ again.tasks = tasks_data

\* a returned list with an answer found, an ABSENT and a task left unset
C9_Witness ==
    /\ pc = "returned"
    /\ \E k \in 1..Len(tasks_data) :
          tasks_data[k].answer \notin {Unset, ABSENT}
    /\ \E k \in 1..Len(tasks_data) : tasks_data[k].answer = ABSENT
    /\ \E k \in 1..Len(tasks_data) : tasks_data[k].answer = Unset

\* the numbering string get_task_data assembles before it strips it
Assembled(c) ==
    IF c.exclusive THEN c.match.g1
    ELSE IF c.match.g1 = None
    THEN (IF EndsWithDot(c.previous) THEN c.previous
          ELSE c.previous \o <<".">>) \o c.match.g4
    ELSE c.match.g1 \o c.match.g2

Punctuation == {".", ")"}

\* C10: the id get_task_data returns is the assembled numbering string
\* without its final character, and does not end with punctuation.
C10_IdIsAssembledWithoutLastChar ==
    call.made
        => LET id == tasks_data[1].id_tasks_book
               a == Assembled(call)
           IN  /\ Len(a) = Len(id) + 1
               /\ a = id \o <<a[Len(a)]>>
               /\ a[Len(a)] \in Punctuation
               /\ id[Len(id)] \notin Punctuation

\* an implicit-prefix call in which the dot was inserted
C10_Witness ==
    /\ call.made
    /\ ~call.exclusive
    /\ call.match.g1 = None
    /\ ~EndsWithDot(call.previous)

-----------------------------------------------------------------------------
(* parser on a document, or answer_parser entered on a task list: the     *)
(* behaviours of Spec and of SpecA together                               *)

InitAll == Init \/ InitA

SpecAll == InitAll /\ [][Next]_vars

\* C11: in every state of parser the k-th record of chapters_data has id k.
C11_ChapterIdIsPosition ==
    \A k \in 1..Len(chapters_data) : chapters_data[k].id = k

\* four chapter records, the last a sub-chapter found by the look-ahead
C11_Witness ==
    /\ Len(chapters_data) = 4
    /\ chapters_data[4].parent = 3

\* b is a with elements appended at the end
IsPrefix(a, b) == Len(a) <= Len(b) /\ SubSeq(b, 1, Len(a)) = a

\* u is t with nothing but 'answer' fields changed
SameButAnswer(t, u) ==
    /\ Len(u) = Len(t)
    /\ \A k \in 1..Len(t) : [u[k] EXCEPT !.answer = t[k].answer] = t[k]

\* C12: a step of the main pass only appends to chapters_data, tasks_data
\* and answers_text; a step of answer_parser changes nothing but 'answer'
\* fields of tasks_data; authors_data never changes.
C12_AppendOnlyThenAnswersOnly ==
    [][/\ authors_data' = authors_data
       /\ (pc \in {"loop", "exit"})
            => /\ IsPrefix(chapters_data, chapters_data')
               /\ IsPrefix(tasks_data, tasks_data')
               /\ IsPrefix(answers_text, answers_text')
       /\ (pc = "answer_parser")
            => /\ chapters_data' = chapters_data
               /\ answers_text' = answers_text
               /\ SameButAnswer(tasks_data, tasks_data')]_vars

\* answer_parser returned after it wrote an answer and an ABSENT
C12_Witness ==
    /\ pc = "returned"
    /\ \E k \in 1..Len(tasks_data) :
          tasks_data[k].answer \notin {Unset, ABSENT}
    /\ \E k \in 1..Len(tasks_data) : tasks_data[k].answer = ABSENT

\* C13: a chapter record emitted through the sub-chapter pattern, on its
\* own line or by the look-ahead after a supreme heading, has as parent the
\* id of the supreme record emitted last, and never parent 0.
C13_SubChapterHasSupremeParent ==
    [][/\ (InLoop /\ Iteration(data, Locals) = "chapter")
            => /\ Last(chapters_data').parent # 0
               /\ Last(chapters_data').parent = supreme_chapter_id
       /\ (InLoop /\ Iteration(data, Locals) = "supreme"
             /\ Len(chapters_data') = Len(chapters_data) + 2)
            => /\ Last(chapters_data').parent # 0
               /\ Last(chapters_data').parent
                    = chapters_data'[Len(chapters_data) + 1].id]_vars

\* the id with a '.' appended when it does not end in one
WithDot(id) == IF EndsWithDot(id) THEN id ELSE id \o <<".">>

\* C14: a task line with an empty leading-number group that immediately
\* follows another task line gets the id: previous task's id, dot-ended,
\* then the line's own suffix, without the final character.
C14_ImplicitContinuesPreviousTask ==
    pc # "crash" =>
        \A k \in 2..Len(tasks_data) :
            (/\ IsImplicit(tasks_data[k])
             /\ tasks_data[k - 1].task[2] # 2)
                => tasks_data[k].id_tasks_book
                     = DropLast(WithDot(tasks_data[k - 1].id_tasks_book)
                                  \o data[k + 1].task.g4)

\* the match of RE_TASK_ID on the id of the task at position i (from 0)
IdMatch(tasks, i) == RE_TASK_ID(At(tasks, i).id_tasks_book)

\* the task at i has no sub-part, and the task after it has none either or
\* has a strictly greater whole number
NextIsNewNumber(tasks, i) ==
    /\ i + 1 < Len(tasks)
    /\ IdMatch(tasks, i).matched /\ IdMatch(tasks, i).g1 = None
    /\ IdMatch(tasks, i + 1).matched
    /\ \/ IdMatch(tasks, i + 1).g1 = None
       \/ ParseInt(IdMatch(tasks, i + 1).g1) > ParseInt(IdMatch(tasks, i).g0)

\* the task at i has no sub-part, and the task after it is a sub-part of
\* the same whole number
NextIsOwnSubPart(tasks, i) ==
    /\ i + 1 < Len(tasks)
    /\ IdMatch(tasks, i).matched /\ IdMatch(tasks, i).g1 = None
    /\ IdMatch(tasks, i + 1).matched
    /\ IdMatch(tasks, i + 1).g1 # None
    /\ ParseInt(IdMatch(tasks, i + 1).g1) = ParseInt(IdMatch(tasks, i).g0)

\* the sub-part `part` cut out of the whole answer of number num, ABSENT
\* when the number has no answer line
Extraction(num, part) ==
    LET whole == get_answer_text(num, answers_text)
    IN  IF whole = ABSENT THEN ABSENT ELSE get_answer_part(part, whole)

\* C15: when the cursor task has no sub-part and the next task has none or
\* has a greater number, one iteration gives the cursor task the whole
\* answer of its number, gives the next task the answer of its own number
\* (the sub-part cut out of it when it has one), and advances by two.
C15_PairResolvedInOneStep ==
    [][(pc = "answer_parser" /\ NextIsNewNumber(tasks_data, a_index))
         => LET cur == IdMatch(tasks_data, a_index)
                nxt == IdMatch(tasks_data, a_index + 1)
            IN  /\ At(tasks_data', a_index).answer
                     = get_answer_text(ParseInt(cur.g0), answers_text)
                /\ At(tasks_data', a_index + 1).answer
                     = IF nxt.g1 = None
                       THEN get_answer_text(ParseInt(nxt.g0), answers_text)
                       ELSE Extraction(ParseInt(nxt.g1), nxt.g2)
                /\ a_index' = a_index + 2]_vars

\* the first two tasks were resolved in one iteration: a whole answer and
\* a sub-part cut out of the answer of a greater number
C15_Witness ==
    /\ pc = "answer_parser"
    /\ a_index = 2
    /\ NextIsNewNumber(tasks_data, 0)
    /\ IdMatch(tasks_data, 1).g1 # None
    /\ At(tasks_data, 0).answer \notin {Unset, ABSENT}
    /\ At(tasks_data, 1).answer \notin {Unset, ABSENT}
    /\ At(tasks_data, 1).answer
         # get_answer_text(ParseInt(IdMatch(tasks_data, 1).g1), answers_text)

\* the positions answer_parser's cursor stops at, from position i on
RECURSIVE CursorStops(_, _)
CursorStops(tasks, i) ==
    IF i >= Len(tasks) THEN {}
    ELSE {i} \cup CursorStops(tasks,
                              i + IF NextIsNewNumber(tasks, i) THEN 2 ELSE 1)

\* C16: when the cursor task has no sub-part and the next task is a
\* sub-part of the same number, then after answer_parser returned the
\* cursor task's answer is ABSENT and the next task's answer is the
\* sub-part cut out of the number's whole answer, ABSENT when it has none.
C16_WholeTaskBeforeItsSubPart ==
    (pc = "returned" /\ data = <<>>)
        => \A i \in CursorStops(tasks_data, 0) :
              NextIsOwnSubPart(tasks_data, i)
                 => /\ At(tasks_data, i).answer = ABSENT
                    /\ At(tasks_data, i + 1).answer
                         = Extraction(ParseInt(IdMatch(tasks_data, i).g0),
                                      IdMatch(tasks_data, i + 1).g2)

\* answer_parser returned a whole-number task followed by its own sub-part
\* for which the answers hold no line, after another task
C16_Witness ==
    /\ pc = "returned" /\ data = <<>>
    /\ \E i \in CursorStops(tasks_data, 0) :
          /\ i > 0
          /\ NextIsOwnSubPart(tasks_data, i)
          /\ At(tasks_data, i).answer = ABSENT
          /\ At(tasks_data, i + 1).answer = ABSENT
    /\ \E k \in 1..Len(tasks_data) :
          tasks_data[k].answer \notin {Unset, ABSENT}

\* C17: in answer_parser current_task_num never decreases from one
\* iteration that completes to the next.
C17_TaskNumNeverDecreases ==
    [][(pc = "answer_parser" /\ pc' # "crash")
         => current_task_num' >= current_task_num]_vars

\* C18: at the start of every iteration of parser's loop the number of
\* records emitted, chapters and tasks together, is the cursor.
C18_RecordsEmittedIsCursor ==
    pc = "loop" => Len(chapters_data) + Len(tasks_data) = index

\* the loop is about to read its fourth paragraph after a sub-chapter
\* heading and a group of two tasks
C18_Witness ==
    /\ pc = "loop"
    /\ index = 3
    /\ index < Len(data)
    /\ Len(chapters_data) = 1
    /\ Len(tasks_data) = 2

\* the paragraph is a supreme heading numbered current_chapter + 1 and is
\* not a task line
IsNextSupreme(text) ==
    /\ RE_SUPREME_CHAPTER(text).matched
    /\ ParseInt(DropLast(RE_SUPREME_CHAPTER(text).g1)) = current_chapter + 1
    /\ ~RE_TASK(text).matched

\* the chapter record was built from a supreme-chapter match as a top-level
\* record
IsSupremeRecord(chapter) ==
    /\ chapter.parent = 0
    /\ \E p \in Paragraphs :
          p.text = chapter.name[1] /\ RE_SUPREME_CHAPTER(p).matched

SupremeRecords ==
    {k \in 1..Len(chapters_data) : IsSupremeRecord(chapters_data[k])}

\* C19: a supreme record is emitted exactly on a supreme-matching line
\* numbered current_chapter + 1 that is not a task line; the step adds 1 to
\* current_chapter and sets supreme_chapter_id to the record's id; no other
\* line changes either; current_chapter counts the supreme records and
\* supreme_chapter_id is 0 or the id of the last of them.
C19_SupremeChapterBookkeeping ==
    /\ [](pc \in {"loop", "exit", "fatal", "crash"}
            => /\ current_chapter = Cardinality(SupremeRecords)
               /\ supreme_chapter_id
                    = IF SupremeRecords = {} THEN 0
                      ELSE chapters_data[CHOOSE k \in SupremeRecords :
                               \A j \in SupremeRecords : j <= k].id)
    /\ [][InLoop
            => IF IsNextSupreme(At(data, index)) /\ pc' = "loop"
               THEN /\ current_chapter' = current_chapter + 1
                    /\ Len(chapters_data') > Len(chapters_data)
                    /\ IsSupremeRecord(chapters_data'[Len(chapters_data) + 1])
                    /\ supreme_chapter_id'
                         = chapters_data'[Len(chapters_data) + 1].id
               ELSE /\ current_chapter' = current_chapter
                    /\ supreme_chapter_id' = supreme_chapter_id
                    /\ \A k \in (Len(chapters_data) + 1)..Len(chapters_data') :
                          ~IsSupremeRecord(chapters_data'[k])]_vars

\* the second supreme chapter was emitted after a supreme-matching line
\* that was taken for a task
C19_Witness ==
    /\ current_chapter = 2
    /\ supreme_chapter_id = 2
    /\ Len(chapters_data) = 2
    /\ Len(tasks_data) >= 1
    /\ tasks_data[1].task[2] = 2

\* the locals after the iteration of parser's loop at the cursor
IterationResult(d, s) ==
    CASE Iteration(d, s) = "supreme" -> SupremeBranch(d, s)
      [] Iteration(d, s) = "chapter" -> ChapterBranch(d, s)
      [] Iteration(d, s) = "supreme_task" -> SupremeTaskBranch(d, s)
      [] Iteration(d, s) = "task" -> TaskBranch(d, s)
      [] Iteration(d, s) = "answers" -> AnswersBranch(d, s)
      [] OTHER -> FatalBranch(d, s)

\* the iteration at the cursor starts a task group: it appends the task of
\* its line and calls find_next_task
StartsGroup(d, s) ==
    /\ Iteration(d, s) \in {"supreme_task", "task"}
    /\ RE_TASK(At(d, s.index)).matched

\* the paragraph is a task line that find_next_task consumes
Consumable(text) ==
    RE_TASK(text).matched /\ ~RE_SUPREME_CHAPTER(text).matched

\* C20: every iteration of parser's loop either moves the cursor forward or
\* leaves the loop; find_next_task, when it returns, returns an index past
\* the line that started the group, having appended one task for each line
\* it passed and stopped at the first line that is not a task line or
\* matches the supreme pattern; every iteration of answer_parser's loop
\* moves its cursor forward or raises; neither cursor passes the end of its
\* list.
C20_EveryIterationAdvances ==
    /\ index <= Len(data)
    /\ a_index <= Len(tasks_data)
    /\ InLoop
         => LET r == IterationResult(data, Locals)
            IN  /\ r.index > index \/ r.pc # "loop"
                /\ r.index <= Len(data)
                /\ (StartsGroup(data, Locals) /\ r.pc = "loop")
                     => /\ r.index > index
                        /\ r.index < Len(data)
                        /\ \A j \in (index + 1)..(r.index - 1) :
                              Consumable(At(data, j))
                        /\ ~Consumable(At(data, r.index))
                        /\ Len(r.tasks_data)
                             = Len(tasks_data) + (r.index - index)
    /\ (pc = "answer_parser" /\ a_index < Len(tasks_data))
         => LET st == AnswerStep(answers_text,
                                 [tasks |-> tasks_data, index |-> a_index,
                                  num |-> current_task_num,
                                  raised |-> "none"])
            IN  /\ st.index > a_index \/ st.raised # "none"
                /\ st.index <= Len(tasks_data)

\* both passes ran to their end: a task group was collected by the main
\* pass and answer_parser walked the tasks and returned
C20_Witness ==
    /\ pc = "returned"
    /\ data # <<>>
    /\ answers_text # <<>>
    /\ Len(tasks_data) >= 1
    /\ a_index = Len(tasks_data)
    /\ index = Len(data)
====
